---- MODULE Spec2Model ----
(***************************************************************************)
(* Ampora API (src/main.py, src/schemas.py): the plan-trip heuristic and   *)
(* the booking handler, over the document store they share.                *)
(*                                                                         *)
(* Units.  Distances are whole metres, so that distance_km = d / 1000.     *)
(* Battery capacity (kWh), efficiency (kWh/100km) and state of charge (%)  *)
(* are integers.  The handler's float arithmetic is modelled by exact      *)
(* rational arithmetic on these integers (cross-multiplied comparisons).   *)
(***************************************************************************)
EXTENDS Integers, Sequences, FiniteSets, TLC

VARIABLES
    db,         \* TRUE iff the module-level `db` handle is not None
    stations,   \* the "chargingstation" collection, in the store's order
    plans,      \* the "plan" collection (names)
    bookings,   \* the "booking" collection, in insertion order
    started,    \* TRUE once the startup hook seed_data has run
    workers,    \* per worker thread: position inside create_booking
    resp,       \* the response of the latest plan-trip call
    firstResp,  \* history: the response of the first plan-trip call
    calls       \* history: number of plan-trip calls so far (saturating)

vars == <<db, stations, plans, bookings, started, workers, resp, firstResp, calls>>

----------------------------------------------------------------------------
(* Bounds of the model *)

MaxStations == 51   \* largest store size explored (one more than the limit)
MaxBookings == 3    \* create_booking calls admitted in one behaviour
NumWorkers == 2     \* threads serving create_booking concurrently
MaxCalls == 3       \* the call counter saturates here

(* Program constants *)

StationLimit == 50        \* .limit(50)
BufferPct == 105          \* distance_km * 1.05
AvgSpeedKmh == 90         \* distance_km / 90 * 60
FastPowerKw == 150        \* power_kw >= 150
FastChargeMinutes == 25
SlowChargeMinutes == 35
DefaultPowerKw == 50      \* station.get("power_kw", 50)
SortDefaultPowerKw == 0   \* s.get("power_kw", 0)

Min(a, b) == IF a <= b THEN a ELSE b
Abs(x) == IF x >= 0 THEN x ELSE -x
Sgn(x) == IF x > 0 THEN 1 ELSE IF x < 0 THEN -1 ELSE 0

\* Python's int() on a rational num/den (den > 0): truncation toward zero.
Trunc(num, den) == IF num >= 0 THEN num \div den ELSE -((-num) \div den)

\* dict.get(key, default) on a stored document
Get(doc, key, default) == IF key \in DOMAIN doc THEN doc[key] ELSE default

----------------------------------------------------------------------------
(* The station store *)

\* A station document.  power = 0 stands for a document without a power_kw
\* field; the schema admits ratings > 0 only.
MkStation(i, power, ports) ==
    IF power = 0
    THEN [id |-> i, available_ports |-> ports]
    ELSE [id |-> i, power_kw |-> power, available_ports |-> ports]

\* Demo stations inserted by seed_data when the collection is empty.
SeedStations ==
    << [id |-> 1, power_kw |-> 150, available_ports |-> 6],
       [id |-> 2, power_kw |-> 100, available_ports |-> 4],
       [id |-> 3, power_kw |-> 250, available_ports |-> 8] >>

SeedPlans == <<"Basic", "Plus", "Pro">>

\* Stores the service may be started against: n stations, the last one with
\* its own rating, the others sharing one; ports alternate 0, 1, 0, ...
StoreSizes == {1, 3, MaxStations}
ShapePowers == {0, 100, 150}
StoreShape(n, base, special) ==
    [i \in 1..n |-> MkStation(i, IF i = n THEN special ELSE base, (i - 1) % 2)]
Stores == {StoreShape(n, b, s) : n \in StoreSizes, b \in ShapePowers, s \in ShapePowers}

----------------------------------------------------------------------------
(* plan-trip *)

Points == {"SF", "MV", "LA"}

\* Great-circle distance in metres (R = 6371 km) between the named points
\* SF (37.7749,-122.4194), MV (37.3875,-122.0575), LA (34.0522,-118.2437).
Haversine(o, d) ==
    IF o = d THEN 0
    ELSE IF {o, d} = {"SF", "MV"} THEN 53597
    ELSE IF {o, d} = {"SF", "LA"} THEN 559121
    ELSE 505949

Requests ==
    { r \in [origin : {"SF"}, dest : Points,
             vehicle_battery_kwh : {-10, 75},
             vehicle_efficiency_kwh_per_100km : {-20, 0, 18},
             current_soc_percent : {0, 90, 101},
             target_arrival_soc_percent : {10, 101}] :
        /\ r.vehicle_battery_kwh = 75 \/ r.vehicle_efficiency_kwh_per_100km = 18
        /\ \/ r.target_arrival_soc_percent = 10
           \/ /\ r.vehicle_battery_kwh = 75
              /\ r.vehicle_efficiency_kwh_per_100km = 18
              /\ r.current_soc_percent = 90
              /\ r.dest = "MV" }

\* The field constraints TripRequest declares: only the two SOC fields.
ValidTripRequest(req) ==
    /\ req.current_soc_percent >= 0 /\ req.current_soc_percent <= 100
    /\ req.target_arrival_soc_percent >= 0 /\ req.target_arrival_soc_percent <= 100

\* Variant: the zero-efficiency fallback already carries the 5% buffer.
MaxKmNowBuffered(req, d) ==
    LET e == req.vehicle_efficiency_kwh_per_100km
        usable100 == req.vehicle_battery_kwh * req.current_soc_percent
    IN IF e # 0 THEN <<Sgn(e) * 1000 * usable100, Abs(e)>> ELSE <<d * BufferPct, 100>>

\* max_km_now as a fraction <<num, den>> of metres, den > 0:
\* usable_kwh / kwh_per_km = battery * soc / efficiency km, or the distance
\* itself when kwh_per_km is zero.
MaxKmNow(req, d) ==
    LET e == req.vehicle_efficiency_kwh_per_100km
        usable100 == req.vehicle_battery_kwh * req.current_soc_percent
    IN IF e # 0 THEN <<Sgn(e) * 1000 * usable100, Abs(e)>> ELSE <<d, 1>>

\* Variant: the comparison without the safety buffer.
FeasibleNoBuffer(req, d) ==
    LET m == MaxKmNow(req, d) IN m[1] >= d * m[2]

\* max_km_now >= distance_km * 1.05
Feasible(req, d) ==
    LET m == MaxKmNow(req, d) IN m[1] * 100 >= d * BufferPct * m[2]

\* Variant: one stop list shared by all calls (a module-level list).
SharedStops(prev) == IF prev.kind = "plan" THEN prev.stops ELSE <<>>

\* stops: List[RoutePlanStop] = []  -- a fresh list in every call
NewStops(prev) == <<>>

\* Variant: the charge time left out of the estimate.
DurationDriveOnly(d, charge) == Trunc(d * 60, AvgSpeedKmh * 1000)

\* int(distance_km / 90 * 60 + charge_minutes)
DurationMinutes(d, charge) ==
    Trunc(d * 60 + charge * AvgSpeedKmh * 1000, AvgSpeedKmh * 1000)

\* round(distance_km, 1), in tenths of a km
RoundedDistance(d) == (d + 50) \div 100

\* list(db["chargingstation"].find({}).limit(n)) if db else []
FindStations(n) ==
    IF db THEN SubSeq(stations, 1, Min(Len(stations), n)) ELSE <<>>

SortKey(s) == Get(s, "power_kw", SortDefaultPowerKw)

\* Variant: reverse=True omitted, the head is the earliest weakest station.
Weakest(sts) ==
    LET keys == {SortKey(sts[i]) : i \in 1..Len(sts)}
        low == CHOOSE k \in keys : \A k2 \in keys : k <= k2
        first == CHOOSE i \in 1..Len(sts) :
                    /\ SortKey(sts[i]) = low
                    /\ \A j \in 1..(i - 1) : SortKey(sts[j]) # low
    IN sts[first]

\* sorted(stations, key=..., reverse=True)[0]: the sort is stable, so the
\* head is the earliest station among those with the greatest key.
Strongest(sts) ==
    LET keys == {SortKey(sts[i]) : i \in 1..Len(sts)}
        top == CHOOSE k \in keys : \A k2 \in keys : k2 <= k
        first == CHOOSE i \in 1..Len(sts) :
                    /\ SortKey(sts[i]) = top
                    /\ \A j \in 1..(i - 1) : SortKey(sts[j]) # top
    IN sts[first]

\* Variant: strict comparison with the 150 kW threshold.
ChargeMinutesStrict(station) ==
    IF Get(station, "power_kw", DefaultPowerKw) > FastPowerKw
    THEN FastChargeMinutes ELSE SlowChargeMinutes

\* 25 if station.get("power_kw", 50) >= 150 else 35
ChargeMinutes(station) ==
    IF Get(station, "power_kw", DefaultPowerKw) >= FastPowerKw
    THEN FastChargeMinutes ELSE SlowChargeMinutes

ValidationError(req) ==
    [kind |-> "error", status |-> 422, detail |-> "validation error",
     req |-> req, lookup |-> FALSE]

\* Variant: the emptiness check missing, [0] of an empty list raising.
NoStationsCrash(req) ==
    [kind |-> "error", status |-> 500, detail |-> "Internal Server Error",
     req |-> req, lookup |-> TRUE]

NoStationsError(req) ==
    [kind |-> "error", status |-> 400,
     detail |-> "No stations available to plan route",
     req |-> req, lookup |-> TRUE]

RoutePlan(req, d, duration, stops, lookup) ==
    [kind |-> "plan", status |-> 200, req |-> req,
     total_distance_km |-> RoundedDistance(d),
     estimated_duration_minutes |-> duration,
     stops |-> stops, lookup |-> lookup]

RoutePlanStop(station, charge) ==
    [station_id |-> ToString(station.id), charge_minutes |-> charge,
     notes |-> "Heuristic stop based on fastest available charger"]

\* The response of plan_trip to req; stops0 is the handler's initial stop list.
PlanTripResponse(req, stops0) ==
    IF ~ValidTripRequest(req) THEN ValidationError(req)
    ELSE LET d == Haversine(req.origin, req.dest) IN
         IF Feasible(req, d)
         THEN RoutePlan(req, d, DurationMinutes(d, 0), stops0, FALSE)
         ELSE LET found == FindStations(StationLimit) IN
              IF found = <<>> THEN NoStationsError(req)
              ELSE LET station == Strongest(found)
                       charge == ChargeMinutes(station)
                   IN RoutePlan(req, d, DurationMinutes(d, charge),
                                Append(stops0, RoutePlanStop(station, charge)),
                                TRUE)

NoResponse == [kind |-> "none"]

PlanTrip(req) ==
    /\ started
    /\ resp' = PlanTripResponse(req, NewStops(resp))
    /\ firstResp' = IF calls = 0 THEN resp' ELSE firstResp
    /\ calls' = Min(calls + 1, MaxCalls)
    /\ UNCHANGED <<db, stations, plans, bookings, started, workers>>

----------------------------------------------------------------------------
(* startup *)

SeedData ==
    /\ ~started
    /\ started' = TRUE
    /\ plans' = IF db /\ plans = <<>> THEN SeedPlans ELSE plans
    /\ stations' = IF db /\ stations = <<>> THEN SeedStations ELSE stations
    /\ UNCHANGED <<db, bookings, workers, resp, firstResp, calls>>

----------------------------------------------------------------------------
(* create_booking *)

Workers == 1..NumWorkers

\* station_id strings a client may send: two stored ids, a well-formed id
\* of no stored station, and a malformed one.
BookingStationIds == {"1", "2", "99", "zz"}

\* ObjectId(s): the id a string denotes, or 0 where bson raises InvalidId.
ObjectId(s) ==
    IF \E n \in 1..99 : ToString(n) = s
    THEN CHOOSE n \in 1..99 : ToString(n) = s
    ELSE 0

\* find_one({"_id": oid}): index of the first matching document, or 0.
FindOne(oid) ==
    IF \E i \in 1..Len(stations) : stations[i].id = oid
    THEN CHOOSE i \in 1..Len(stations) :
            /\ stations[i].id = oid
            /\ \A j \in 1..(i - 1) : stations[j].id # oid
    ELSE 0

Idle(status) == [pc |-> "idle", station_id |-> "", station |-> 0, status |-> status]

InFlight == Cardinality({w \in Workers : workers[w].pc # "idle"})

\* Entry of the handler up to the 404 check.
BookingFind(w, sid) ==
    /\ started
    /\ workers[w].pc = "idle"
    /\ Len(bookings) + InFlight < MaxBookings
    /\ workers' = [workers EXCEPT ![w] =
          IF ~db \/ ObjectId(sid) = 0 THEN Idle(500)
          ELSE IF FindOne(ObjectId(sid)) = 0 THEN Idle(404)
          ELSE [pc |-> "found", station_id |-> sid,
                station |-> stations[FindOne(ObjectId(sid))].id, status |-> 0]]
    /\ UNCHANGED <<db, stations, plans, bookings, started, resp, firstResp, calls>>

\* create_document("booking", {**b.model_dump(), "status": "reserved"})
BookingCreate(w) ==
    /\ workers[w].pc = "found"
    /\ bookings' = Append(bookings,
                          [station_id |-> workers[w].station_id, status |-> "reserved"])
    /\ workers' = [workers EXCEPT ![w].pc = "created"]
    /\ UNCHANGED <<db, stations, plans, started, resp, firstResp, calls>>

\* update_one({"_id": station["_id"]}, {"$inc": {"available_ports": -1}})
DecrementPorts(oid) ==
    LET i == FindOne(oid) IN
    IF i = 0 THEN stations
    ELSE [stations EXCEPT ![i].available_ports = @ - 1]

BookingDecrement(w) ==
    /\ workers[w].pc = "created"
    /\ stations' = DecrementPorts(workers[w].station)
    /\ workers' = [workers EXCEPT ![w] = Idle(200)]
    /\ UNCHANGED <<db, plans, bookings, started, resp, firstResp, calls>>

----------------------------------------------------------------------------
(* Specifications *)

Init ==
    /\ db \in BOOLEAN
    /\ stations \in (IF db THEN Stores \cup {<<>>} ELSE {<<>>})
    /\ plans = <<>>
    /\ bookings = <<>>
    /\ started = FALSE
    /\ workers = [w \in Workers |-> Idle(0)]
    /\ resp = NoResponse
    /\ firstResp = NoResponse
    /\ calls = 0

NextPlan ==
    \/ SeedData
    \/ \E req \in Requests : PlanTrip(req)

NextBooking ==
    \/ SeedData
    \/ \E w \in Workers, sid \in BookingStationIds : BookingFind(w, sid)
    \/ \E w \in Workers : BookingCreate(w)
    \/ \E w \in Workers : BookingDecrement(w)

Next == NextPlan \/ NextBooking

\* plan-trip requests against a store no booking touches
SpecPlan == Init /\ [][NextPlan]_vars

\* concurrent create_booking calls
SpecBooking == Init /\ [][NextBooking]_vars

Spec == Init /\ [][Next]_vars

----------------------------------------------------------------------------
(* Properties *)

\* Feasibility as the specification words it: usable energy / energy per km
\* >= 1.05 x distance, with reach = distance when the efficiency is 0.
SpecFeasible(req) ==
    LET d == Haversine(req.origin, req.dest)
        e == req.vehicle_efficiency_kwh_per_100km
        u == req.vehicle_battery_kwh * req.current_soc_percent
    IN IF e > 0 THEN 100000 * u >= 105 * d * e
       ELSE IF e < 0 THEN 100000 * u <= 105 * d * e
       ELSE 100 * d >= 105 * d

IsPlan(r) == r.kind = "plan"
IsDirect(r) == IsPlan(r) /\ r.stops = <<>>
HasStop(r) == IsPlan(r) /\ r.stops # <<>>
Accepted(r) == r.kind # "none" /\ r.status # 422

\* What the store hands to plan-trip: at most its first 50 stations.
Returned == IF db THEN {stations[i] : i \in 1..Min(Len(stations), 50)} ELSE {}

\* The stored station the plan's stop names.
Selected == CHOOSE s \in Returned : ToString(s.id) = resp.stops[1].station_id

Rating(s) == IF "power_kw" \in DOMAIN s THEN s.power_kw ELSE 0

\* C1: a returned plan has no stop when the trip is feasible, exactly one
\* stop when it is infeasible and the store has stations, and never more
\* than one stop.
C1_StopCount ==
    IsPlan(resp) =>
        /\ Len(resp.stops) <= 1
        /\ SpecFeasible(resp.req) => resp.stops = <<>>
        /\ (~SpecFeasible(resp.req) /\ Returned # {}) => Len(resp.stops) = 1

C1_Witness ==
    /\ IsPlan(resp) /\ ~SpecFeasible(resp.req) /\ Len(resp.stops) = 1
    /\ IsDirect(firstResp) /\ SpecFeasible(firstResp.req)

\* C2: an infeasible trip against a store that yields no station fails with
\* HTTP 400 "No stations available to plan route" and returns no plan.
C2_NoStations ==
    (Accepted(resp) /\ ~SpecFeasible(resp.req) /\ Returned = {}) =>
        /\ resp.kind = "error"
        /\ resp.status = 400
        /\ resp.detail = "No stations available to plan route"

C2_Witness ==
    /\ Accepted(resp) /\ ~SpecFeasible(resp.req) /\ Returned = {}
    /\ resp.status = 400

\* C3: the station of the plan's stop is one of the stations the store
\* returned, and none of those has a strictly higher power rating.
C3_StrongestSelected ==
    HasStop(resp) =>
        /\ \E s \in Returned : ToString(s.id) = resp.stops[1].station_id
        /\ \A s \in Returned : Rating(s) <= Rating(Selected)

\* A 51st station outranks every returned one and is still not selected.
C3_Witness ==
    /\ HasStop(resp)
    /\ Len(stations) > 50
    /\ Rating(stations[Len(stations)]) > Rating(Selected)

StopMinutes(r) == IF r.stops = <<>> THEN 0 ELSE r.stops[1].charge_minutes
TripMetres(r) == Haversine(r.req.origin, r.req.dest)

DifferOnlyInSoc(a, b) ==
    /\ a.current_soc_percent # b.current_soc_percent
    /\ [a EXCEPT !.current_soc_percent = b.current_soc_percent] = b

\* C6: of two accepted requests that differ only in current_soc_percent, if
\* the one with the lower SOC yields a direct plan, so does the other.
C6_SocMonotone ==
    (Accepted(firstResp) /\ Accepted(resp)
       /\ DifferOnlyInSoc(firstResp.req, resp.req)
       /\ firstResp.req.current_soc_percent < resp.req.current_soc_percent
       /\ IsDirect(firstResp))
    => IsDirect(resp)

\* C7: a request with battery <= 0, efficiency <= 0 or an SOC field outside
\* [0,100] is rejected with a validation error before any planning runs.
C7_RejectedBeforePlanning ==
    (resp.kind # "none"
       /\ \/ resp.req.vehicle_battery_kwh <= 0
          \/ resp.req.vehicle_efficiency_kwh_per_100km <= 0
          \/ resp.req.current_soc_percent \notin 0..100
          \/ resp.req.target_arrival_soc_percent \notin 0..100)
    => (resp.status = 422 /\ ~resp.lookup)

\* C8 as stated: with efficiency 0 the result is a direct plan with no stop
\* and no station lookup, for every trip distance.
C8_ZeroEfficiencyDirect ==
    (Accepted(resp) /\ resp.req.vehicle_efficiency_kwh_per_100km = 0)
    => (IsDirect(resp) /\ ~resp.lookup)

\* C8 amended: with efficiency 0 the result is a direct plan without a
\* station lookup only for a trip of distance 0; for a positive distance the
\* trip is infeasible, the store is consulted and the result is a
\* single-stop plan or the no-stations failure.
C8_ZeroEfficiencyAmended ==
    (Accepted(resp) /\ resp.req.vehicle_efficiency_kwh_per_100km = 0) =>
        IF TripMetres(resp) = 0
        THEN IsDirect(resp) /\ ~resp.lookup
        ELSE /\ resp.lookup
             /\ \/ IsPlan(resp) /\ Len(resp.stops) = 1
                \/ resp.status = 400

C8_Witness ==
    /\ Accepted(resp) /\ resp.req.vehicle_efficiency_kwh_per_100km = 0
    /\ TripMetres(resp) > 0
    /\ HasStop(resp)

C10_PortsNonNegative ==
    \A i \in 1..Len(stations) : stations[i].available_ports >= 0

====
